---- MODULE Spec2Model ----
(***************************************************************************)
(* Model of scripts/build_poole_u18_ics.py: the reconciliation of the      *)
(* fixture and result feeds against the persisted per-UID state, one run   *)
(* of main() per step.                                                     *)
(*                                                                         *)
(* Representation.                                                         *)
(*  - A JSON value is a record: JNull (JSON null, Python None), JStr(s),   *)
(*    JNum(n).  A feed record (a Python dict) is a function from key       *)
(*    names to JSON values; a key that is not in its DOMAIN is missing.    *)
(*  - An instant is a number of minutes since 1970-01-01T00:00Z; every     *)
(*    strftime of an instant in the code is one-to-one on instants, so the *)
(*    instant stands for the formatted text.                               *)
(*  - sha256 over json.dumps(..., sort_keys=True) is taken to be free of   *)
(*    collisions: the fingerprint is the pair of values that is hashed.    *)
(*  - A formatted text (an f-string) is the sequence of its parts.         *)
(*  - DTSTAMP (the wall clock of the run) is left out of the output.       *)
(*                                                                         *)
(* Specifications.  Spec: runs of main() on any feeds.  SpecFetch: runs    *)
(* of main() with the call of fetch_json for the fixtures stepped through. *)
(* SpecUid and SpecParse: calls of make_uid and of                         *)
(* parse_fixture_dt_local_to_utc on their own.                             *)
(***************************************************************************)
EXTENDS Integers, Sequences, FiniteSets, TLC

\* ------------------------------------------------------------------ bounds
MaxRuns == 3
MaxFixtures == 2
MaxResults == 1
MaxCalls == 2
MaxRequests == 4

\* ------------------------------------------------------------- JSON values
JNull == [null |-> TRUE]
JStr(s) == [str |-> s]
JNum(n) == [num |-> n]

IsStr(v) == DOMAIN v = {"str"}
IsNum(v) == DOMAIN v = {"num"}

\* Python truthiness of a JSON scalar: None, "" and 0 are falsy.
Truthy(v) ==
    IF IsStr(v) THEN v.str # ""
    ELSE IF IsNum(v) THEN v.num # 0
    ELSE FALSE

\* a or b
Or(a, b) == IF Truthy(a) THEN a ELSE b

\* d.get(k)
Get(d, k) == IF k \in DOMAIN d THEN d[k] ELSE JNull

\* ---------------------------------------------------------------- CONFIG
TEAM_NAME == "Poole Town FC Wessex U18 Colts"

LINKS ==
    << "PTYFC Res/Fix: https://tinyurl.com/3rcea6d6",
       "League Table: https://tinyurl.com/2p3zzska",
       "League Fixtures: https://tinyurl.com/bdhdmzcn",
       "League Results: https://tinyurl.com/bs6ppntx" >>

\* timedelta(hours=2), in minutes
EVENT_DURATION == 120

\* ------------------------------------------------------- the text universe
\* The texts the feeds of this model carry.  The string functions of the
\* code are tabulated on them: each row is the value the code computes.
ExampleTown == "Example Town"

\* str.strip()
Strip(s) ==
    CASE s = "Ground A " -> "Ground A"
      [] OTHER -> s

\* str.lower()
Lower(s) ==
    CASE s = TEAM_NAME -> "poole town fc wessex u18 colts"
      [] s = "Poole Town FC Wessex U18s Colts" -> "poole town fc wessex u18s colts"
      [] s = ExampleTown -> "example town"
      [] s = "Example Town FC" -> "example town fc"
      [] s = "EXAMPLE TOWN" -> "example town"
      [] s = "Example-Town" -> "example-town"
      [] s = "Example  Town" -> "example  town"
      [] OTHER -> s

\* a in b, for lower-cased a and b
Contains(b, a) ==
    \/ a = ""
    \/ a = b

\* slug(): lower-case, runs of non-alphanumerics to "-", strip("-")
slug(s) ==
    LET l == Lower(s) IN
    CASE l = "poole town fc wessex u18 colts" -> "poole-town-fc-wessex-u18-colts"
      [] l = "poole town fc wessex u18s colts" -> "poole-town-fc-wessex-u18s-colts"
      [] l = "example town" -> "example-town"
      [] l = "example town fc" -> "example-town-fc"
      [] l = "example-town" -> "example-town"
      [] l = "example  town" -> "example-town"
      [] OTHER -> l

\* clean_team(): lower-case, drop the words fc/afc, u18s -> u18, collapse spaces
clean_team(s) ==
    LET l == Lower(s) IN
    CASE l = "poole town fc wessex u18 colts" -> "poole town wessex u18 colts"
      [] l = "poole town fc wessex u18s colts" -> "poole town wessex u18 colts"
      [] l = "example town" -> "example town"
      [] l = "example town fc" -> "example town"
      [] l = "example-town" -> "example-town"
      [] l = "example  town" -> "example town"
      [] OTHER -> l

\* esc(): \ , ; and newline are escaped; no text of the universe has one
esc(s) == s

\* str(v) of a JSON scalar
NumText == << "0", "1", "2", "3", "4", "5", "6", "7", "8", "9" >>
Str(v) ==
    IF IsStr(v) THEN v.str
    ELSE IF IsNum(v) THEN NumText[v.num + 1]
    ELSE "None"

\* -------------------------------------------------------------- DATE/TIME
Fail == [ok |-> FALSE]
Civil(y, mo, d, h, mi) == [ok |-> TRUE, y |-> y, mo |-> mo, d |-> d, h |-> h, mi |-> mi]

FmtYy == "%d/%m/%y %H:%M"
FmtYyyy == "%d/%m/%Y %H:%M"
FmtYyDate == "%d/%m/%y"
FmtYyyyDate == "%d/%m/%Y"

\* datetime.strptime(s, fmt) on the date texts of the universe
strptime(s, fmt) ==
    CASE s = "07/09/25 14:00" /\ fmt = FmtYy -> Civil(2025, 9, 7, 14, 0)
      [] s = "07/09/25 15:00" /\ fmt = FmtYy -> Civil(2025, 9, 7, 15, 0)
      [] s = "07/09/2025 14:00" /\ fmt = FmtYyyy -> Civil(2025, 9, 7, 14, 0)
      [] s = "07/09/25" /\ fmt = FmtYyDate -> Civil(2025, 9, 7, 0, 0)
      [] s = "07/09/2025" /\ fmt = FmtYyyyDate -> Civil(2025, 9, 7, 0, 0)
      [] s = "11/01/26 14:00" /\ fmt = FmtYy -> Civil(2026, 1, 11, 14, 0)
      [] s = "29/03/25 23:30" /\ fmt = FmtYy -> Civil(2025, 3, 29, 23, 30)
      [] s = "30/03/25 00:30" /\ fmt = FmtYy -> Civil(2025, 3, 30, 0, 30)
      [] s = "30/03/25 01:00" /\ fmt = FmtYy -> Civil(2025, 3, 30, 1, 0)
      [] s = "30/03/25 01:30" /\ fmt = FmtYy -> Civil(2025, 3, 30, 1, 30)
      [] s = "30/03/25 02:00" /\ fmt = FmtYy -> Civil(2025, 3, 30, 2, 0)
      [] s = "30/03/25 02:30" /\ fmt = FmtYy -> Civil(2025, 3, 30, 2, 30)
      [] s = "30/03/2025 01:30" /\ fmt = FmtYyyy -> Civil(2025, 3, 30, 1, 30)
      [] s = "26/10/25 00:30" /\ fmt = FmtYy -> Civil(2025, 10, 26, 0, 30)
      [] s = "26/10/25 01:00" /\ fmt = FmtYy -> Civil(2025, 10, 26, 1, 0)
      [] s = "26/10/25 01:30" /\ fmt = FmtYy -> Civil(2025, 10, 26, 1, 30)
      [] s = "26/10/25 02:00" /\ fmt = FmtYy -> Civil(2025, 10, 26, 2, 0)
      [] s = "26/10/2025 01:30" /\ fmt = FmtYyyy -> Civil(2025, 10, 26, 1, 30)
      [] OTHER -> Fail

\* Days from 1970-01-01 to the civil date y-mo-d (proleptic Gregorian).
DaysFromCivil(y, mo, d) ==
    LET yy == IF mo <= 2 THEN y - 1 ELSE y
        era == yy \div 400
        yoe == yy - era * 400
        mp == (mo + 9) % 12
        doy == (153 * mp + 2) \div 5 + d - 1
        doe == yoe * 365 + yoe \div 4 - yoe \div 100 + doy
    IN  era * 146097 + doe - 719468

\* The wall-clock value read as if it were UTC, in minutes.
WallMinutes(c) == (DaysFromCivil(c.y, c.mo, c.d) * 24 + c.h) * 60 + c.mi

\* Last Sunday of the month mo (31 days) of year y, 01:00 UTC: the instant of
\* the Europe/London offset change (1970-01-01 was a Thursday).
LastSunday0100(y, mo) ==
    LET last == DaysFromCivil(y, mo, 31)
        dow == (last + 4) % 7
    IN  ((last - dow) * 24 + 1) * 60

\* The wall clock read as GMT all year
LondonOffsetOfWall_Gmt(c) == 0

\* ZoneInfo("Europe/London").utcoffset of a wall-clock value with fold=0, in
\* minutes: in the spring gap the offset before the change (GMT), in the
\* autumn overlap the offset before the change (BST).
LondonOffsetOfWall(c) ==
    LET w == WallMinutes(c) IN
    IF LastSunday0100(c.y, 3) + 60 <= w /\ w < LastSunday0100(c.y, 10) + 60
    THEN 60 ELSE 0

\* utcoffset of an instant in Europe/London, given the year it falls in
\* (the offset changes fall in March and October, never across a new year)
LondonOffsetOfInstant(t, y) ==
    IF LastSunday0100(y, 3) <= t /\ t < LastSunday0100(y, 10) THEN 60 ELSE 0

\* The civil year an instant falls in (UTC).
YearOfInstant(t) ==
    LET z == t \div 1440 + 719468
        era == z \div 146097
        doe == z - era * 146097
        yoe == (doe - doe \div 1460 + doe \div 36524 - doe \div 146096) \div 365
        doy == doe - (365 * yoe + yoe \div 4 - yoe \div 100)
        mp == (5 * doy + 2) \div 153
        mo == IF mp < 10 THEN mp + 3 ELSE mp - 9
    IN  yoe + era * 400 + (IF mo <= 2 THEN 1 ELSE 0)

\* The ValueError of parse_fixture_dt_local_to_utc
NoInstant == 0 - 1
\* datetime.max, the sort key of a row whose date does not parse: above
\* every instant of the model
MaxInstant == 2147483647

\* parse_fixture_dt_local_to_utc that returns the epoch for a text it cannot
\* parse instead of raising
parse_fixture_dt_local_to_utc_Lenient(local_dt_str) ==
    IF ~Truthy(local_dt_str) \/ ~IsStr(local_dt_str) THEN 0
    ELSE LET a == strptime(local_dt_str.str, FmtYy)
             b == strptime(local_dt_str.str, FmtYyyy)
         IN  IF a.ok THEN WallMinutes(a) - LondonOffsetOfWall(a)
             ELSE IF b.ok THEN WallMinutes(b) - LondonOffsetOfWall(b)
             ELSE 0

\* parse_fixture_dt_local_to_utc of a JSON value: NoInstant stands for the
\* ValueError (a falsy value; a value strptime rejects, a non-string included)
parse_fixture_dt_local_to_utc(local_dt_str) ==
    IF ~Truthy(local_dt_str) \/ ~IsStr(local_dt_str) THEN NoInstant
    ELSE LET a == strptime(local_dt_str.str, FmtYy)
             b == strptime(local_dt_str.str, FmtYyyy)
         IN  IF a.ok THEN WallMinutes(a) - LondonOffsetOfWall(a)
             ELSE IF b.ok THEN WallMinutes(b) - LondonOffsetOfWall(b)
             ELSE NoInstant

\* fmt_local: the Europe/London wall clock of an instant, in minutes
fmt_local(dt_utc) == dt_utc + LondonOffsetOfInstant(dt_utc, YearOfInstant(dt_utc))

\* key_from_date_and_teams: the date part is the parsed date, or the raw text
KeyDate(date_str) ==
    LET a == strptime(date_str, FmtYy)
        b == strptime(date_str, FmtYyyy)
        c == strptime(date_str, FmtYyDate)
        d == strptime(date_str, FmtYyyyDate)
        p == IF a.ok THEN a ELSE IF b.ok THEN b ELSE IF c.ok THEN c ELSE d
    IN  IF p.ok THEN [ymd |-> << p.y, p.mo, p.d >>] ELSE [raw |-> date_str]

key_from_date_and_teams(date_str, home, away) ==
    [date |-> KeyDate(date_str), home |-> clean_team(home), away |-> clean_team(away)]

\* --------------------------------------------------------- UID & SEQUENCE
\* make_uid with the opponent left out of the UID
make_uid_NoOpponent(start_utc, home, away) ==
    LET us_home == Contains(Lower(home), Lower(TEAM_NAME))
    IN  [ts |-> start_utc, hoa |-> IF us_home THEN "h" ELSE "a", opp |-> "opponent"]

\* make_uid: "ptfc-u18-{ts}-{hoa}-{slug(opponent)}@poole-town" as its parts
make_uid(start_utc, home, away) ==
    LET us_home == Contains(Lower(home), Lower(TEAM_NAME))
        other == IF us_home THEN away ELSE home
        opponent == IF other = "" THEN "opponent" ELSE other
    IN  [ts |-> start_utc, hoa |-> IF us_home THEN "h" ELSE "a", opp |-> slug(opponent)]

\* The order of the UID texts (sorted() of line 293): the timestamp, then
\* "a" before "h", then the opponent slug.
SlugOrder == << "example-town", "example-town-fc", "opponent" >>
SlugRank(x) == CHOOSE i \in 1..Len(SlugOrder) : SlugOrder[i] = x
UidLess(a, b) ==
    \/ a.ts < b.ts
    \/ a.ts = b.ts /\ a.hoa = "a" /\ b.hoa = "h"
    \/ a.ts = b.ts /\ a.hoa = b.hoa /\ SlugRank(a.opp) < SlugRank(b.opp)

RECURSIVE SortedUids(_)
SortedUids(S) ==
    IF S = {} THEN << >>
    ELSE LET m == CHOOSE u \in S : \A v \in S \ {u} : UidLess(u, v)
         IN  << m >> \o SortedUids(S \ {m})

\* ------------------------------------------------------------- the feeds
Dict(dt, home, away, venue, comp) ==
    [fixtureDateTime |-> JStr(dt), homeTeam |-> JStr(home), awayTeam |-> JStr(away),
     location |-> JStr(venue), competition |-> JStr(comp)]

FxA == Dict("07/09/25 14:00", TEAM_NAME, ExampleTown, "Ground A", "League")
FxB == Dict("07/09/25 14:00", TEAM_NAME, ExampleTown, "Ground B", "League")
\* the same fixture, kick-off moved by an hour
FxLate == Dict("07/09/25 15:00", TEAM_NAME, ExampleTown, "Ground A", "League")
\* the same fixture as FxA in the four-digit-year format
FxA4 == Dict("07/09/2025 14:00", TEAM_NAME, ExampleTown, "Ground A", "League")
\* a row whose date does not parse
FxTbc == Dict("TBC", TEAM_NAME, ExampleTown, "Ground A", "League")

FixtureRecords == { FxA, FxB, FxLate, FxA4, FxTbc }

Res(hs, as) ==
    [fixtureDateTime |-> JStr("07/09/25 14:00"), homeTeam |-> JStr(TEAM_NAME),
     awayTeam |-> JStr(ExampleTown), homeScore |-> hs, awayScore |-> as]

Res21 == Res(JNum(2), JNum(1))
\* date only, the alias keys, the club suffix
Res31 ==
    [date |-> JStr("07/09/25"), home |-> JStr(TEAM_NAME), away |-> JStr("Example Town FC"),
     homeGoals |-> JNum(3), awayGoals |-> JNum(1)]
\* a goalless home side
Res01 == Res(JNum(0), JNum(1))

ResultRecords == { Res21, Res31, Res01 }

SeqsUpTo(S, n) == UNION { [1..k -> S] : k \in 0..n }
FixtureFeeds == SeqsUpTo(FixtureRecords, MaxFixtures)
ResultFeeds == SeqsUpTo(ResultRecords, MaxResults)

\* ------------------------------------------------------------- MAIN BUILD
VARIABLES
    stateFile,    \* STATE on disk: UID -> [seq, fp, snapshot]
    outputFile,   \* OUTPUT on disk: [exists, events]
    notifyFile,   \* NOTIFY_FILE on disk: [exists, added, updated, removed]
    fixtures,     \* the fixture feed of the last run, as main() sorted it
    results,      \* the result feed of the last run
    loaded,       \* what load_state() returned to the last run
    prev_uids, seen_uids, added, updated, removed, built,   \* its locals
    outcome,      \* where the last run returned
    runs,         \* the number of runs so far
    calls,        \* the calls of a helper made on its own: [args, ret]
    fetch         \* the call of fetch_json(FIXTURES_URL): [pc, attempt, requests, last, ret]

vars == << stateFile, outputFile, notifyFile, fixtures, results, loaded,
           prev_uids, seen_uids, added, updated, removed, built, outcome, runs,
           calls, fetch >>

EmptyDict == [u \in {} |-> 0]
\* fetch_json is not running
NoFetch == [pc |-> "idle", attempt |-> 0, requests |-> 0, last |-> "none", ret |-> << >>]
NoFile == [exists |-> FALSE]

\* Lines 170-177: the result lookup; a later row replaces an earlier one with
\* the same key.
ResultKey(r) ==
    LET date_str == Or(Or(Or(Get(r, "resultDateTime"), Get(r, "fixtureDateTime")),
                          Get(r, "date")), JStr(""))
        home == Or(Or(Get(r, "homeTeam"), Get(r, "home")), JStr(""))
        away == Or(Or(Get(r, "awayTeam"), Get(r, "away")), JStr(""))
    IN  key_from_date_and_teams(Str(date_str), home.str, away.str)

ResultScores(r) ==
    [hs |-> Or(Get(r, "homeScore"), Get(r, "homeGoals")),
     as |-> Or(Get(r, "awayScore"), Get(r, "awayGoals"))]

BuildResMap(rs) ==
    LET keys == { ResultKey(rs[i]) : i \in 1..Len(rs) }
        last(k) == CHOOSE i \in 1..Len(rs) :
                      /\ ResultKey(rs[i]) = k
                      /\ \A j \in (i + 1)..Len(rs) : ResultKey(rs[j]) # k
    IN  [k \in keys |-> ResultScores(rs[last(k)])]

\* Lines 180-185: the stable sort by kick-off; a row that does not parse last.
safe_key(fx) ==
    LET t == parse_fixture_dt_local_to_utc(
                 Or(Or(Get(fx, "fixtureDateTime"), Get(fx, "date")), JStr("")))
    IN  IF t = NoInstant THEN MaxInstant ELSE t

RECURSIVE InsertSorted(_, _)
InsertSorted(sorted, fx) ==
    IF sorted = << >> THEN << fx >>
    ELSE IF safe_key(sorted[Len(sorted)]) <= safe_key(fx) THEN Append(sorted, fx)
    ELSE Append(InsertSorted(SubSeq(sorted, 1, Len(sorted) - 1), fx), sorted[Len(sorted)])

RECURSIVE SortFixtures(_)
SortFixtures(fs) ==
    IF fs = << >> THEN << >>
    ELSE InsertSorted(SortFixtures(SubSeq(fs, 1, Len(fs) - 1)), fs[Len(fs)])

\* state.get(uid, {}).get(k): JNull when the UID or the key is missing
StateGet(st, uid, k) == IF uid \in DOMAIN st THEN st[uid][k] ELSE JNull

\* "{v}" in an f-string, of a text or None
Fmt(v) == IF v = JNull THEN "None" ELSE v.str

\* Lines 224-225: a score of the matched result as text, None without one
MergeScore(r, k) ==
    IF r # JNull /\ r[k] # JNull THEN JStr(Strip(Str(r[k]))) ELSE JNull

\* Lines 227-230
Summary(us_home, opponent, hs, as) ==
    IF hs # JNull /\ as # JNull
    THEN IF us_home THEN << TEAM_NAME, Fmt(hs), "-", Fmt(as), opponent >>
         ELSE << opponent, Fmt(hs), "-", Fmt(as), TEAM_NAME >>
    ELSE IF us_home THEN << TEAM_NAME, "vs", opponent >>
         ELSE << opponent, "vs", TEAM_NAME >>

\* Lines 232-238
Description(home, away, comp, venue, hs, as) ==
    << esc(home), "vs", esc(away) >>
    \o (IF comp # "" THEN << "Competition:", esc(comp) >> ELSE << >>)
    \o (IF venue # "" THEN << "Venue:", esc(venue) >> ELSE << >>)
    \o (IF hs # JNull /\ as # JNull
        THEN << "Result:", esc(home), Fmt(hs), "-", Fmt(as), esc(away) >> ELSE << >>)
    \o LINKS

\* Lines 241-246
Snapshot(start_utc, home, away, venue, comp, hs, as) ==
    [ko |-> start_utc, home |-> home, away |-> away, venue |-> venue, comp |-> comp,
     hs |-> hs, as |-> as]

\* ScoreDelta with only the away score tested
ScoreDelta_AwayOnly(home, away, hs, as) ==
    IF as # JNull
    THEN [label |-> "score", text |-> << home, Fmt(hs), "-", Fmt(as), away >>]
    ELSE [label |-> "score cleared", text |-> << >>]

\* Lines 259-263: the label of a score delta
ScoreDelta(home, away, hs, as) ==
    IF hs # JNull /\ as # JNull
    THEN [label |-> "score", text |-> << home, Fmt(hs), "-", Fmt(as), away >>]
    ELSE [label |-> "score cleared", text |-> << >>]

Delta(label) == [label |-> label, text |-> << >>]

\* Deltas without the venue comparison
Deltas_NoVenue(prev, snapshot) ==
    (IF prev.ko # snapshot.ko THEN << Delta("time") >> ELSE << >>)
    \o (IF prev.comp # snapshot.comp THEN << Delta("competition") >> ELSE << >>)
    \o (IF << prev.hs, prev.as >> # << snapshot.hs, snapshot.as >>
        THEN << ScoreDelta(snapshot.home, snapshot.away, snapshot.hs, snapshot.as) >>
        ELSE << >>)

\* Lines 252-263: prev is the stored snapshot
Deltas(prev, snapshot) ==
    (IF prev.ko # snapshot.ko THEN << Delta("time") >> ELSE << >>)
    \o (IF prev.venue # snapshot.venue THEN << Delta("venue") >> ELSE << >>)
    \o (IF prev.comp # snapshot.comp THEN << Delta("competition") >> ELSE << >>)
    \o (IF << prev.hs, prev.as >> # << snapshot.hs, snapshot.as >>
        THEN << ScoreDelta(snapshot.home, snapshot.away, snapshot.hs, snapshot.as) >>
        ELSE << >>)

\* Fingerprint over the fixture row alone
Fingerprint_FixtureOnly(fx, r) == [fx |-> fx, res |-> JNull]

\* Line 268: the hash of the fixture row and the result matched to it
Fingerprint(fx, r) == [fx |-> fx, res |-> r]

\* NextSeq that does not start from the stored SEQUENCE
NextSeq_Forget(st, uid, fingerprint) ==
    LET fp == StateGet(st, uid, "fp")
    IN  IF fp # JNull /\ fp # fingerprint THEN 1 ELSE 0

\* Lines 269-271: the SEQUENCE of the UID, one more when the stored
\* fingerprint is another one
NextSeq(st, uid, fingerprint) ==
    LET seq == IF uid \in DOMAIN st THEN st[uid].seq ELSE 0
        fp == StateGet(st, uid, "fp")
    IN  IF fp # JNull /\ fp # fingerprint THEN seq + 1 ELSE seq

\* VEvent with the SEQUENCE property left at 0
VEvent_NoSequence(uid, start_utc, end_utc, seq, summary, venue, description) ==
    [UID |-> uid, DTSTART |-> start_utc, DTEND |-> end_utc, SEQUENCE |-> 0,
     SUMMARY |-> summary, LOCATION |-> esc(venue), DESCRIPTION |-> description]

\* Lines 275-286, without DTSTAMP
VEvent(uid, start_utc, end_utc, seq, summary, venue, description) ==
    [UID |-> uid, DTSTART |-> start_utc, DTEND |-> end_utc, SEQUENCE |-> seq,
     SUMMARY |-> summary, LOCATION |-> esc(venue), DESCRIPTION |-> description]

\* Lines 206-290: the body of the loop for one fixture row.  acc holds the
\* locals the loop updates.  A row whose team, venue or competition is a
\* truthy non-string, or whose date does not parse, raises before anything
\* is updated and is skipped.  The entries of added and updated are the
\* parts of the text the code appends; uid, prev and snapshot are not in the
\* text: they record which UID the entry is for and what was compared.
ProcessFixture(acc, fx, res_map) ==
    LET f_date_local == Or(Or(Get(fx, "fixtureDateTime"), Get(fx, "date")), JStr(""))
        homeV == Or(Get(fx, "homeTeam"), JStr(""))
        awayV == Or(Get(fx, "awayTeam"), JStr(""))
        venueV == Or(Or(Get(fx, "location"), Get(fx, "ground")), JStr(""))
        compV == Or(Get(fx, "competition"), JStr(""))
        start_utc == parse_fixture_dt_local_to_utc(f_date_local)
    IN
    IF ~(IsStr(homeV) /\ IsStr(awayV) /\ IsStr(venueV) /\ IsStr(compV)) THEN acc
    ELSE IF start_utc = NoInstant THEN acc
    ELSE
    LET home == Strip(homeV.str)
        away == Strip(awayV.str)
        venue == Strip(venueV.str)
        comp == Strip(compV.str)
        end_utc == start_utc + EVENT_DURATION
        uid == make_uid(start_utc, home, away)
        us_home == Contains(Lower(home), Lower(TEAM_NAME))
        opponent == IF us_home THEN away ELSE home
        key == key_from_date_and_teams(f_date_local.str, home, away)
        r == IF key \in DOMAIN res_map THEN res_map[key] ELSE JNull
        hs == MergeScore(r, "hs")
        as == MergeScore(r, "as")
        summary == Summary(us_home, opponent, hs, as)
        description == Description(home, away, comp, venue, hs, as)
        snapshot == Snapshot(start_utc, home, away, venue, comp, hs, as)
        prev == StateGet(acc.state, uid, "snapshot")
        deltas == IF prev = JNull THEN << >> ELSE Deltas(prev, snapshot)
        fingerprint == Fingerprint(fx, r)
        seq == NextSeq(acc.state, uid, fingerprint)
        entry == [seq |-> seq, fp |-> fingerprint, snapshot |-> snapshot]
    IN  [ state |-> [u \in DOMAIN acc.state \cup {uid} |->
                        IF u = uid THEN entry ELSE acc.state[u]],
          seen_uids |-> acc.seen_uids \cup {uid},
          added |-> IF prev = JNull
                    THEN Append(acc.added,
                                [uid |-> uid, when |-> fmt_local(start_utc),
                                 home |-> home, away |-> away, venue |-> venue])
                    ELSE acc.added,
          updated |-> IF prev # JNull /\ deltas # << >>
                      THEN Append(acc.updated,
                                  [uid |-> uid, when |-> fmt_local(start_utc),
                                   home |-> home, away |-> away, deltas |-> deltas,
                                   prev |-> prev, snapshot |-> snapshot])
                      ELSE acc.updated,
          lines |-> Append(acc.lines,
                           VEvent(uid, start_utc, end_utc, seq, summary, venue, description)),
          built |-> acc.built + 1 ]

RECURSIVE Loop(_, _, _)
Loop(acc, fs, res_map) ==
    IF fs = << >> THEN acc
    \* a is the value of the locals after this iteration
    ELSE CHOOSE out \in { Loop(a, Tail(fs), res_map) :
                           a \in { ProcessFixture(acc, Head(fs), res_map) } } : TRUE

\* RemovedList with the difference taken the wrong way round
RemovedList_Reversed(prev, seen, st) ==
    LET us == SortedUids(seen \ prev)
    IN  [i \in 1..Len(us) |->
            [uid |-> us[i], when |-> fmt_local(st[us[i]].snapshot.ko),
             home |-> st[us[i]].snapshot.home, away |-> st[us[i]].snapshot.away]]

\* RemovedList over every stored UID, the seen ones included
RemovedList_All(prev, seen, st) ==
    LET us == SortedUids(prev)
    IN  [i \in 1..Len(us) |->
            [uid |-> us[i], when |-> fmt_local(st[us[i]].snapshot.ko),
             home |-> st[us[i]].snapshot.home, away |-> st[us[i]].snapshot.away]]

\* Lines 292-299: the stored fixtures this run did not see, in UID order
RemovedList(prev, seen, st) ==
    LET us == SortedUids(prev \ seen)
    IN  [i \in 1..Len(us) |->
            [uid |-> us[i], when |-> fmt_local(st[us[i]].snapshot.ko),
             home |-> st[us[i]].snapshot.home, away |-> st[us[i]].snapshot.away]]

\* load_state that does not read the file
load_state_Empty(file) == EmptyDict

\* load_state(): an absent file reads as the empty mapping
load_state(file) == IF file.exists THEN file.data ELSE EmptyDict

\* Lines 164-167: the feed returned nothing
NoFixtures(fs) == Len(fs) = 0

\* The guard of lines 301-304 left out
NothingBuilt_Never(n) == FALSE

\* Lines 301-304: nothing was built
NothingBuilt(n) == n = 0

\* Lines 313-327: notify.txt is written when a list has an entry, removed
\* otherwise
Notify(a, u, r) ==
    IF a # << >> \/ u # << >> \/ r # << >>
    THEN [exists |-> TRUE, added |-> a, updated |-> u, removed |-> r]
    ELSE NoFile

\* The locals before the loop of line 206
InitAcc(st) ==
    [state |-> st, seen_uids |-> {}, added |-> << >>, updated |-> << >>,
     lines |-> << >>, built |-> 0]

Init ==
    /\ stateFile = NoFile
    /\ outputFile = NoFile
    /\ notifyFile = NoFile
    /\ fixtures = << >>
    /\ results = << >>
    /\ loaded = EmptyDict
    /\ prev_uids = {}
    /\ seen_uids = {}
    /\ added = << >>
    /\ updated = << >>
    /\ removed = << >>
    /\ built = 0
    /\ outcome = "none"
    /\ runs = 0
    /\ calls = << >>
    /\ fetch = NoFetch

\* main() from line 162 on, on the feeds the two calls of fetch_json returned
Run(fetched, rs) ==
         /\ runs' = runs + 1
         /\ results' = rs
         /\ IF NoFixtures(fetched)
            THEN /\ outcome' = "no fixtures"
                 /\ fixtures' = fetched
                 /\ loaded' = EmptyDict
                 /\ prev_uids' = {}
                 /\ seen_uids' = {}
                 /\ added' = << >>
                 /\ updated' = << >>
                 /\ removed' = << >>
                 /\ built' = 0
                 /\ UNCHANGED << stateFile, outputFile, notifyFile >>
            ELSE \E res_map \in { BuildResMap(rs) }, sorted \in { SortFixtures(fetched) },
                    state \in { load_state(stateFile) } :
                 \E acc \in { Loop(InitAcc(state), sorted, res_map) } :
                 /\ fixtures' = sorted
                 /\ loaded' = state
                 /\ prev_uids' = DOMAIN state
                 /\ seen_uids' = acc.seen_uids
                 /\ added' = acc.added
                 /\ updated' = acc.updated
                 /\ removed' = RemovedList(DOMAIN state, acc.seen_uids, acc.state)
                 /\ built' = acc.built
                 /\ IF NothingBuilt(acc.built)
                    THEN /\ outcome' = "built 0"
                         /\ UNCHANGED << stateFile, outputFile, notifyFile >>
                    ELSE /\ outcome' = "written"
                         /\ outputFile' = [exists |-> TRUE, events |-> acc.lines]
                         /\ stateFile' = [exists |-> TRUE, data |-> acc.state]
                         /\ notifyFile' = Notify(acc.added, acc.updated, removed')

\* One run of main(), whatever lists the two calls of fetch_json return
Main ==
    /\ runs < MaxRuns
    /\ UNCHANGED << calls, fetch >>
    /\ \E fetched \in FixtureFeeds, rs \in ResultFeeds : Run(fetched, rs)

Next == Main

Spec == Init /\ [][Next]_vars

\* ------------------------------------------------ the helpers on their own
\* The variables of main(), which a call of a helper leaves alone
mainVars == << stateFile, outputFile, notifyFile, fixtures, results, loaded,
               prev_uids, seen_uids, added, updated, removed, built, outcome, runs >>

\* The team names and the kick-offs make_uid is called with
TeamNames ==
    { TEAM_NAME, ExampleTown, "Example Town FC", "EXAMPLE TOWN", "Example-Town",
      "Example  Town", "" }
KickOffs ==
    { parse_fixture_dt_local_to_utc(JStr("07/09/25 14:00")),
      parse_fixture_dt_local_to_utc(JStr("07/09/25 15:00")) }

\* One call of make_uid
UidCall ==
    /\ Len(calls) < MaxCalls
    /\ \E start_utc \in KickOffs, home \in TeamNames, away \in TeamNames :
         calls' = Append(calls, [args |-> << start_utc, home, away >>,
                                 ret |-> make_uid(start_utc, home, away)])
    /\ UNCHANGED << mainVars, fetch >>

SpecUid == Init /\ [][UidCall]_vars

\* The date-time texts parse_fixture_dt_local_to_utc is called with: a summer
\* and a winter afternoon, the night of 30 March 2025 (01:00 GMT becomes
\* 02:00 BST) and the night of 26 October 2025 (02:00 BST becomes 01:00 GMT),
\* in the two formats, and a text of neither format
DateTexts ==
    { "07/09/25 14:00", "07/09/25 15:00", "07/09/2025 14:00", "11/01/26 14:00",
      "29/03/25 23:30", "30/03/25 00:30", "30/03/25 01:00", "30/03/25 01:30",
      "30/03/25 02:00", "30/03/25 02:30", "30/03/2025 01:30",
      "26/10/25 00:30", "26/10/25 01:00", "26/10/25 01:30", "26/10/25 02:00",
      "26/10/2025 01:30", "TBC" }

\* One call of parse_fixture_dt_local_to_utc
ParseCall ==
    /\ Len(calls) < MaxCalls
    /\ \E local_dt_str \in DateTexts :
         calls' = Append(calls, [args |-> << local_dt_str >>,
                                 ret |-> parse_fixture_dt_local_to_utc(JStr(local_dt_str))])
    /\ UNCHANGED << mainVars, fetch >>

SpecParse == Init /\ [][ParseCall]_vars

\* ------------------------------------------------------------- fetch_json
\* The default of the parameter retries
retries == 3

\* A decoded JSON document: a list, an object (its members in document
\* order, as << key, value >>) or a scalar
JList(l) == [list |-> l]
JDict(members) == [dict |-> members]
IsList(v) == DOMAIN v = {"list"}
IsDict(v) == DOMAIN v = {"dict"}

\* data.get(k)
DictGet(data, k) ==
    LET at == { i \in 1..Len(data.dict) : data.dict[i][1] = k }
    IN  IF at = {} THEN JNull ELSE data.dict[CHOOSE i \in at : TRUE][2]

Least(S) == CHOOSE i \in S : \A j \in S : i <= j

\* Lines 98-112: the list fetch_json returns for the decoded document
ListOf(data) ==
    LET keys == << "fixtures", "results", "data", "items", "matches" >>
    IN  IF IsList(data) THEN data.list
        ELSE IF IsDict(data)
        THEN LET known == { i \in 1..Len(keys) : IsList(DictGet(data, keys[i])) }
                 lists == { i \in 1..Len(data.dict) : IsList(data.dict[i][2]) }
             IN  IF known # {} THEN DictGet(data, keys[Least(known)]).list
                 ELSE IF lists # {} THEN data.dict[Least(lists)][2].list
                 ELSE << >>
        ELSE << >>

\* What one urlopen of the fixtures URL can end in: an HTTPError or URLError,
\* another exception (a socket timeout while the body is read), or a body,
\* which is JSON or not
Responses ==
    { [kind |-> "HTTPError"], [kind |-> "URLError"], [kind |-> "timeout"],
      [kind |-> "body", json |-> FALSE],
      [kind |-> "body", json |-> TRUE, data |-> JList(<< >>)],
      [kind |-> "body", json |-> TRUE, data |-> JList(<< FxA >>)],
      [kind |-> "body", json |-> TRUE,
       data |-> JDict(<< << "count", JNum(1) >>, << "fixtures", JList(<< FxB >>) >> >>)],
      [kind |-> "body", json |-> TRUE,
       data |-> JDict(<< << "rows", JList(<< FxLate >>) >>, << "data", JList(<< FxA >>) >> >>)],
      [kind |-> "body", json |-> TRUE, data |-> JDict(<< << "rows", JList(<< FxTbc >>) >> >>)],
      [kind |-> "body", json |-> TRUE, data |-> JDict(<< << "error", JStr("TBC") >> >>)],
      [kind |-> "body", json |-> TRUE, data |-> JNum(0)] }

\* A loop that tries again after every error
Retry_Unbounded(f, kind) == [f EXCEPT !.attempt = @ + 1, !.last = kind]

\* Lines 72 and 86-90, 113-114: after an HTTPError or URLError the loop goes
\* on to the next attempt, and past the last one fetch_json returns []
Retry(f, kind) ==
    IF f.attempt < retries
    THEN [f EXCEPT !.attempt = @ + 1, !.last = kind]
    ELSE [f EXCEPT !.pc = "returned", !.last = kind, !.ret = << >>]

\* Lines 73-112: one pass of the loop, on what urlopen ended in
Attempt(f, resp) ==
    LET g == [f EXCEPT !.requests = @ + 1] IN
    IF resp.kind \in {"HTTPError", "URLError"} THEN Retry(g, resp.kind)
    ELSE IF resp.kind # "body" THEN [g EXCEPT !.pc = "raised", !.last = resp.kind]
    ELSE IF ~resp.json THEN [g EXCEPT !.pc = "returned", !.last = "decode failure", !.ret = << >>]
    ELSE [g EXCEPT !.pc = "returned", !.last = "decoded", !.ret = ListOf(resp.data)]

\* main() calls fetch_json(FIXTURES_URL)
FetchCall ==
    /\ runs < MaxRuns
    /\ fetch.pc = "idle"
    /\ fetch' = [pc |-> "request", attempt |-> 1, requests |-> 0, last |-> "none",
                 ret |-> << >>]
    /\ UNCHANGED << mainVars, calls >>

\* One pass of the loop of fetch_json
FetchAttempt ==
    /\ fetch.pc = "request"
    /\ fetch.requests < MaxRequests
    /\ \E resp \in Responses : fetch' = Attempt(fetch, resp)
    /\ UNCHANGED << mainVars, calls >>

\* fetch_json returned: main() goes on with its list and with what the call
\* for the results returns
MainFetched ==
    /\ fetch.pc = "returned"
    /\ fetch' = [fetch EXCEPT !.pc = "idle"]
    /\ UNCHANGED calls
    /\ \E rs \in ResultFeeds : Run(fetch.ret, rs)

\* fetch_json raised: the exception leaves main() at line 160
MainRaised ==
    /\ fetch.pc = "raised"
    /\ fetch' = [fetch EXCEPT !.pc = "idle"]
    /\ runs' = runs + 1
    /\ outcome' = "raised"
    /\ fixtures' = << >> /\ results' = << >> /\ loaded' = EmptyDict
    /\ prev_uids' = {} /\ seen_uids' = {}
    /\ added' = << >> /\ updated' = << >> /\ removed' = << >>
    /\ built' = 0
    /\ UNCHANGED << stateFile, outputFile, notifyFile, calls >>

NextFetch == FetchCall \/ FetchAttempt \/ MainFetched \/ MainRaised

\* fetch_json runs on: every pass of its loop ends (urlopen has a timeout,
\* the back-off sleeps are finite)
SpecFetch == Init /\ [][NextFetch]_vars /\ WF_vars(FetchAttempt)

\* ------------------------------------------------- what the claims speak of
Range(s) == { s[i] : i \in 1..Len(s) }
UidsOf(list) == { list[i].uid : i \in 1..Len(list) }
Data(file) == load_state(file)

\* The kick-off and the UID of a fixture row, and the rows of a feed that
\* produce a UID (a row whose date does not parse produces none)
RowInstant(fx) ==
    parse_fixture_dt_local_to_utc(Or(Or(Get(fx, "fixtureDateTime"), Get(fx, "date")), JStr("")))
RowHome(fx) == Strip(Or(Get(fx, "homeTeam"), JStr("")).str)
RowAway(fx) == Strip(Or(Get(fx, "awayTeam"), JStr("")).str)
RowUid(fx) == make_uid(RowInstant(fx), RowHome(fx), RowAway(fx))
RowsOf(fs, u) == { i \in 1..Len(fs) : RowInstant(fs[i]) # NoInstant /\ RowUid(fs[i]) = u }
Produced(fs) == { RowUid(fs[i]) : i \in { j \in 1..Len(fs) : RowInstant(fs[j]) # NoInstant } }
AllRowsFail(fs) == \A i \in 1..Len(fs) : RowInstant(fs[i]) = NoInstant

Scored(snap) == snap.hs # JNull /\ snap.as # JNull
ScoresDiffer(a, b) == << a.hs, a.as >> # << b.hs, b.as >>
Labels(e) == { e.deltas[i].label : i \in 1..Len(e.deltas) }

\* C1: from one run to the next, whatever the run (changed rows, a row that
\* reverts, an absent fixture, an aborted run), every UID of the persisted
\* state keeps its entry and its SEQUENCE does not decrease.
C1_RevisionNeverDecreases ==
    [][ \A u \in DOMAIN Data(stateFile) :
            /\ u \in DOMAIN Data(stateFile')
            /\ Data(stateFile')[u].seq >= Data(stateFile)[u].seq ]_vars

\* A venue that went from Ground A to Ground B is back at Ground A, at SEQUENCE 2.
C1_Witness ==
    \E u \in prev_uids \cap DOMAIN Data(stateFile) :
        /\ loaded[u].fp.fx = FxB /\ loaded[u].seq = 1
        /\ Data(stateFile)[u].fp.fx = FxA /\ Data(stateFile)[u].seq = 2

\* C2: for every UID with a stored entry that the run sees, the SEQUENCE after
\* the run is the stored one plus 1 if the fingerprint the run leaves differs
\* from the stored fingerprint, and the stored one otherwise.
C2_BumpIffFingerprintDiffers ==
    \A u \in prev_uids \cap Produced(fixtures) :
        Data(stateFile)[u].seq =
            IF Data(stateFile)[u].fp # loaded[u].fp THEN loaded[u].seq + 1 ELSE loaded[u].seq

\* C3: a run whose feed is empty, or none of whose rows parses, leaves the
\* state file and the calendar file as they were.
C3_EmptyRunWritesNothing ==
    [][ AllRowsFail(fixtures') => (stateFile' = stateFile /\ outputFile' = outputFile) ]_vars

\* A run built nothing although a calendar and a state were on disk.
C3_Witness ==
    /\ outcome = "built 0" /\ fixtures # << >>
    /\ outputFile.exists /\ stateFile.exists

\* C4: a run on the feeds of the run before it, which wrote, changes no
\* stored entry and classifies nothing as Added or Updated.
C4_IdenticalRerunIdempotent ==
    [][ (outcome = "written" /\ fixtures' = fixtures /\ results' = results)
            => (stateFile' = stateFile /\ added' = << >> /\ updated' = << >>) ]_vars

\* C5: when the only row of the feed is the match of the run before with
\* another kick-off, the UID is the same, the run reports it Updated with
\* "time", and reports neither a Removed nor an Added fixture for it.
SameMatchMoved(f, g) ==
    /\ RowInstant(f) # NoInstant /\ RowInstant(g) # NoInstant
    /\ RowInstant(f) # RowInstant(g)
    /\ RowHome(f) = RowHome(g) /\ RowAway(f) = RowAway(g)

C5_KickoffChangeIsInPlaceUpdate ==
    [][ (/\ outcome = "written" /\ Len(fixtures) = 1 /\ Len(fixtures') = 1
         /\ SameMatchMoved(fixtures[1], fixtures'[1]))
            => /\ RowUid(fixtures'[1]) = RowUid(fixtures[1])
               /\ \E i \in 1..Len(updated') :
                     /\ updated'[i].uid = RowUid(fixtures'[1])
                     /\ "time" \in Labels(updated'[i])
               /\ RowUid(fixtures[1]) \notin UidsOf(removed')
               /\ RowUid(fixtures'[1]) \notin UidsOf(added') ]_vars

\* C6: a UID the run produces that the loaded state does not hold is
\* classified Added and is not classified Updated.
C6_UnseenIsAddedNeverUpdated ==
    \A u \in Produced(fixtures) \ DOMAIN loaded :
        u \in UidsOf(added) /\ u \notin UidsOf(updated)

\* C7: every UID of the loaded state that no row of the run produces is
\* classified Removed, and no UID a row produces is classified Removed.
C7_AbsentIsRemoved ==
    /\ \A u \in DOMAIN loaded \ Produced(fixtures) : u \in UidsOf(removed)
    /\ UidsOf(removed) \cap Produced(fixtures) = {}

\* A run saw one stored fixture and missed another.
C7_Witness ==
    /\ removed # << >>
    /\ prev_uids \cap Produced(fixtures) # {}

\* C8 as the specification has it: an Updated entry whose stored snapshot had
\* no score and whose row has both is labelled "score added", and one whose
\* stored score was set and is now another is labelled "score changed".
C8_AddedAndChangedLabelled ==
    \A i \in 1..Len(updated) :
        LET e == updated[i] IN
        /\ (~Scored(e.prev) /\ Scored(e.snapshot)) => "score added" \in Labels(e)
        /\ (Scored(e.prev) /\ Scored(e.snapshot) /\ ScoresDiffer(e.prev, e.snapshot))
              => "score changed" \in Labels(e)

\* C8, amended: the label of a score change depends on the scores of the run
\* only.  With both scores it is "score {home} {hs}-{as} {away}", the same
\* for a score that arrived and for a score that changed; with a score
\* missing it is "score cleared"; without a score change there is neither.
C8_ScoreLabelFromCurrentScore ==
    \A i \in 1..Len(updated) :
        LET e == updated[i]
            score == [label |-> "score",
                      text |-> << e.snapshot.home, Fmt(e.snapshot.hs), "-",
                                  Fmt(e.snapshot.as), e.snapshot.away >>]
            cleared == Delta("score cleared")
            scoreDeltas == { d \in Range(e.deltas) : d.label \notin {"time", "venue", "competition"} }
        IN  scoreDeltas =
                IF ~ScoresDiffer(e.prev, e.snapshot) THEN {}
                ELSE IF Scored(e.snapshot) THEN {score}
                ELSE {cleared}

\* A stored score 2-1 became 3-1.
C8_Witness ==
    \E i \in 1..Len(updated) :
        /\ Scored(updated[i].prev) /\ Scored(updated[i].snapshot)
        /\ updated[i].prev.hs = JStr("2") /\ updated[i].snapshot.hs = JStr("3")

\* C9: the row of every event is scored exactly when a result matches it and
\* that result has a home and an away score, a numeric 0 included: then the
\* summary is the scored form and the stored snapshot has both scores,
\* otherwise the summary is the "vs" form and the snapshot lacks a score.
FixtureKey(fx) ==
    key_from_date_and_teams(
        Or(Or(Get(fx, "fixtureDateTime"), Get(fx, "date")), JStr("")).str,
        RowHome(fx), RowAway(fx))
Present(r, k1, k2) == Get(r, k1) # JNull \/ Get(r, k2) # JNull
HasBothScores(fx, rs) ==
    LET ms == { j \in 1..Len(rs) : ResultKey(rs[j]) = FixtureKey(fx) }
    IN  /\ ms # {}
        /\ LET r == rs[CHOOSE j \in ms : \A k \in ms : k <= j]
           IN  Present(r, "homeScore", "homeGoals") /\ Present(r, "awayScore", "awayGoals")

\* The rows that parse sort first, so event i is the event of row i.
C9_ScoredWhenBothScoresPresent ==
    outcome = "written" =>
        \A i \in 1..Len(outputFile.events) :
            LET ev == outputFile.events[i]
                snap == Data(stateFile)[ev.UID].snapshot
                alone == Cardinality(RowsOf(fixtures, ev.UID)) = 1
            IN  IF HasBothScores(fixtures[i], results)
                THEN Len(ev.SUMMARY) = 5 /\ (alone => Scored(snap))
                ELSE /\ Len(ev.SUMMARY) = 3 /\ ev.SUMMARY[2] = "vs"
                     /\ (alone => ~Scored(snap))

\* C10: a stored fixture that exactly one row of the run produces, with the
\* stored snapshot but for another venue and the stored result, has its
\* SEQUENCE raised by exactly 1 and exactly one Updated entry, whose deltas
\* are "venue" alone.
OnlyVenueChanged(u) ==
    /\ Cardinality(RowsOf(fixtures, u)) = 1
    /\ loaded[u].snapshot.venue # Data(stateFile)[u].snapshot.venue
    /\ [loaded[u].snapshot EXCEPT !.venue = Data(stateFile)[u].snapshot.venue]
           = Data(stateFile)[u].snapshot
    /\ loaded[u].fp.res = Data(stateFile)[u].fp.res

C10_VenueChangeBumpsOnce ==
    \A u \in prev_uids \cap Produced(fixtures) :
        OnlyVenueChanged(u) =>
            /\ Data(stateFile)[u].seq = loaded[u].seq + 1
            /\ Cardinality({ i \in 1..Len(updated) : updated[i].uid = u }) = 1
            /\ \A i \in 1..Len(updated) :
                  updated[i].uid = u => updated[i].deltas = << Delta("venue") >>

\* Ground A became Ground B.
C10_Witness ==
    \E u \in prev_uids \cap Produced(fixtures) :
        /\ OnlyVenueChanged(u)
        /\ loaded[u].snapshot.venue = "Ground A"
        /\ Data(stateFile)[u].snapshot.venue = "Ground B"

\* The events of the calendar file that carry the UID u
EventsOf(file, u) == { i \in 1..Len(file.events) : file.events[i].UID = u }

\* C11: after a run that wrote, every UID the run produced that the loaded
\* state did not hold is stored with SEQUENCE 0, and every event the run
\* emitted for it carries SEQUENCE 0.
C11_FirstSightingRevisionZero ==
    outcome = "written" =>
        \A u \in Produced(fixtures) \ DOMAIN loaded :
            /\ Data(stateFile)[u].seq = 0
            /\ \A i \in EventsOf(outputFile, u) : outputFile.events[i].SEQUENCE = 0

\* The UIDs of the state file, and those of the events of the calendar file
StoredUids(file) == IF file.exists THEN DOMAIN file.data ELSE {}
EventUids(file) == { file.events[i].UID : i \in 1..Len(file.events) }

\* C12: no run takes a UID out of the state file, and the calendar file a
\* run writes has events for the UIDs the rows of that run produce and for
\* no other, whatever the state file holds.
C12_StateGrowsOutputIsCurrent ==
    [][ /\ StoredUids(stateFile) \subseteq StoredUids(stateFile')
        /\ outcome' = "written" => EventUids(outputFile') = Produced(fixtures') ]_vars

\* A stored fixture has left the feed: it is in the state file the run wrote
\* and has no event in the calendar file the run wrote.
C12_Witness ==
    /\ outcome = "written"
    /\ \E u \in StoredUids(stateFile) \ Produced(fixtures) :
          u \in DOMAIN loaded /\ u \notin EventUids(outputFile)

\* The opponent of a call of make_uid: the away side when the tracked team
\* is at home, the home side otherwise
OpponentOf(c) == IF c.ret.hoa = "h" THEN c.args[3] ELSE c.args[2]

\* C13 as the specification has it: two calls of make_uid with the same
\* arguments return the same UID, and two calls with the same kick-off and the same side whose opponent
\* names differ, be it only in punctuation, spacing or letter case, return
\* different UIDs.
C13_DifferentOpponentsDifferentUids ==
    \A i, j \in 1..Len(calls) :
        /\ calls[i].args = calls[j].args => calls[i].ret = calls[j].ret
        /\ (/\ calls[i].args[1] = calls[j].args[1]
            /\ calls[i].ret.hoa = calls[j].ret.hoa
            /\ OpponentOf(calls[i]) # OpponentOf(calls[j]))
               => calls[i].ret # calls[j].ret

\* The opponent as it enters the UID: the placeholder for an empty name, slugged
OpponentSlug(c) == slug(IF OpponentOf(c) = "" THEN "opponent" ELSE OpponentOf(c))

\* C13, amended: two calls of make_uid with the same arguments return the
\* same UID, and two calls with the same kick-off and the same side return
\* different UIDs exactly when the slugs of their opponent names differ:
\* names that differ only in punctuation, spacing or letter case have one
\* slug and receive the same UID.
C13_UidsDifferWhenSlugsDiffer ==
    \A i, j \in 1..Len(calls) :
        /\ calls[i].args = calls[j].args => calls[i].ret = calls[j].ret
        /\ (calls[i].args[1] = calls[j].args[1] /\ calls[i].ret.hoa = calls[j].ret.hoa)
               => (calls[i].ret # calls[j].ret <=> OpponentSlug(calls[i]) # OpponentSlug(calls[j]))

\* The tracked team at home at one kick-off against Example Town and against
\* Example Town FC: two UIDs.
C13_Witness ==
    \E i, j \in 1..Len(calls) :
        /\ calls[i].args[1] = calls[j].args[1]
        /\ calls[i].args[2] = TEAM_NAME /\ calls[j].args[2] = TEAM_NAME
        /\ calls[i].args[3] = ExampleTown /\ calls[j].args[3] = "Example Town FC"
        /\ calls[i].ret # calls[j].ret

\* A valid row: its date-time is a text that strptime accepts in one of the
\* two formats.  Every other row is a failing one.
ValidRow(fx) ==
    LET v == Or(Or(Get(fx, "fixtureDateTime"), Get(fx, "date")), JStr(""))
    IN  IsStr(v) /\ (strptime(v.str, FmtYy).ok \/ strptime(v.str, FmtYyyy).ok)

\* C14: a run on a feed with rows is the run on its valid rows alone: every
\* valid row is built, emitted and tracked, in feed order, and a failing row
\* adds no event, changes the state of no UID and no classification, and
\* does not stop the run, which writes when a row is valid.
C14_FailingRowsAreSkipped ==
    fixtures # << >> =>
        LET valid == SelectSeq(fixtures, ValidRow)
            alone == Loop(InitAcc(loaded), valid, BuildResMap(results))
        IN  /\ built = Len(valid)
            /\ added = alone.added /\ updated = alone.updated
            /\ outcome = IF valid = << >> THEN "built 0" ELSE "written"
            /\ valid # << >> =>
                  /\ outputFile.events = alone.lines
                  /\ Data(stateFile) = alone.state
                  /\ \A i \in 1..Len(valid) :
                        /\ outputFile.events[i].UID = RowUid(valid[i])
                        /\ RowUid(valid[i]) \in StoredUids(stateFile)

\* A row without a kick-off and a valid row in one feed, with a fixture
\* stored before: one event, and the stored fixture kept.
C14_Witness ==
    /\ outcome = "written"
    /\ Len(fixtures) = 2 /\ ValidRow(fixtures[1]) /\ ~ValidRow(fixtures[2])
    /\ Len(outputFile.events) = 1
    /\ loaded # EmptyDict

\* C15: a run that writes leaves a notify file exactly when one of its lists
\* has an entry, and after any run whose three lists are empty there is no
\* notify file, the one of an earlier run included.
C15_NoSummaryWithoutChange ==
    LET changed == added # << >> \/ updated # << >> \/ removed # << >>
    IN  /\ outcome = "written" => (notifyFile.exists <=> changed)
        /\ (runs > 0 /\ ~changed) => ~notifyFile.exists

\* The wall-clock value a date-time text states, by the format that accepts it
WallOf(text) ==
    LET a == strptime(text, FmtYy)
        b == strptime(text, FmtYyyy)
    IN  IF a.ok THEN a ELSE b
ValidText(text) == WallOf(text).ok

\* The hour the clocks skip: 01:00 to 01:59 of the last Sunday of March
Skipped(c) ==
    /\ LastSunday0100(c.y, 3) <= WallMinutes(c)
    /\ WallMinutes(c) < LastSunday0100(c.y, 3) + 60

\* C16 as the specification has it: the instant returned for a valid text,
\* taken back to Europe/London civil time, is the wall-clock value of the text.
C16_RoundTrip ==
    \A i \in 1..Len(calls) :
        ValidText(calls[i].args[1]) =>
            fmt_local(calls[i].ret) = WallMinutes(WallOf(calls[i].args[1]))

\* C16, amended: the round trip holds for every valid text whose wall-clock
\* value exists in Europe/London, the days of the offset changes and the
\* hour that occurs twice in October included; a text in the hour the clocks
\* skip in March is accepted, and its instant converts back to the
\* wall-clock value one hour later.
C16_RoundTripOfExistingTimes ==
    \A i \in 1..Len(calls) :
        LET text == calls[i].args[1]
            back == fmt_local(calls[i].ret)
        IN  ValidText(text) =>
                IF Skipped(WallOf(text))
                THEN back = WallMinutes(WallOf(text)) + 60
                ELSE back = WallMinutes(WallOf(text))

\* 01:30 of the October night round-trips, and 01:30 of the March night
\* comes back as 02:30.
C16_Witness ==
    \E i, j \in 1..Len(calls) :
        /\ calls[i].args[1] = "26/10/25 01:30"
        /\ fmt_local(calls[i].ret) = WallMinutes(Civil(2025, 10, 26, 1, 30))
        /\ calls[j].args[1] = "30/03/25 01:30"
        /\ fmt_local(calls[j].ret) = WallMinutes(Civil(2025, 3, 30, 2, 30))

\* The SEQUENCE a UID starts the run with, and its Updated entries
StartSeq(u) == IF u \in DOMAIN loaded THEN loaded[u].seq ELSE 0
UpdatesOf(u) == { i \in 1..Len(updated) : updated[i].uid = u }

\* C17: every Updated entry of a run comes with an increment: the snapshot
\* it reports differs from the one it was compared with, and the SEQUENCE
\* the run stores for the UID is above the one it started with by at least
\* the number of Updated entries for that UID.
C17_UpdatedBumpsRevision ==
    \A i \in 1..Len(updated) :
        LET u == updated[i].uid IN
        /\ updated[i].prev # updated[i].snapshot
        /\ outcome = "written"
        /\ Data(stateFile)[u].seq >= StartSeq(u) + Cardinality(UpdatesOf(u))
        /\ \E j \in EventsOf(outputFile, u) : outputFile.events[j].SEQUENCE > StartSeq(u)

\* A result arrived for a stored fixture: Updated with a score, SEQUENCE 0 -> 1.
C17_Witness ==
    \E i \in 1..Len(updated) :
        LET u == updated[i].uid IN
        /\ u \in DOMAIN loaded /\ loaded[u].seq = 0
        /\ Labels(updated[i]) = {"score"}
        /\ Data(stateFile)[u].seq = 1

NetworkErrors == {"HTTPError", "URLError"}

\* C18: a call of fetch_json makes at most retries requests; it goes on to
\* another request only after an HTTPError or URLError; after retries such
\* errors it returns the empty list; on a body that is not JSON it returns
\* the empty list at once; it raises neither error to main(); it ends
\* (returns, or lets another exception through); and the run whose fetch of
\* the fixtures failed on every attempt leaves the state file and the
\* calendar file as they were.
C18_FetchEndsAndFailsEmpty ==
    /\ [](fetch.requests <= retries)
    /\ [][ (fetch.pc = "request" /\ fetch'.pc = "request")
              => /\ fetch'.last \in NetworkErrors
                 /\ fetch'.attempt = fetch.attempt + 1 ]_vars
    /\ []((fetch.pc = "returned" /\ fetch.last \in NetworkErrors)
              => (fetch.requests = retries /\ fetch.ret = << >>))
    /\ [](fetch.last = "decode failure" => (fetch.pc # "request" /\ fetch.ret = << >>))
    /\ [](fetch.pc = "raised" => fetch.last \notin NetworkErrors)
    /\ [][ (fetch.pc = "returned" /\ fetch.last \in NetworkErrors /\ runs' = runs + 1)
              => (stateFile' = stateFile /\ outputFile' = outputFile) ]_vars
    /\ (fetch.pc = "request") ~> (fetch.pc \in {"returned", "raised"})

\* Three requests failed and the run after them returned at the empty feed,
\* with a state file and a calendar file of an earlier run on disk.
C18_Witness ==
    /\ fetch.pc = "idle" /\ fetch.last \in NetworkErrors /\ fetch.requests = retries
    /\ outcome = "no fixtures"
    /\ stateFile.exists /\ outputFile.exists

\* C19: whatever runs came before, a run that writes reports every UID of
\* the state file that its feed does not produce as Removed, in its lists
\* and in the notify file, so an absent fixture is reported by every such
\* run; and a UID of the state file that its feed produces is not Added,
\* and its events and its stored SEQUENCE go on from the stored SEQUENCE.
C19_RemovedEveryRunUntilBack ==
    [][ outcome' = "written" =>
          \A u \in StoredUids(stateFile) :
              IF u \notin Produced(fixtures')
              THEN /\ u \in UidsOf(removed')
                   /\ notifyFile'.exists /\ u \in UidsOf(notifyFile'.removed)
              ELSE /\ u \notin UidsOf(added')
                   /\ \E j \in EventsOf(outputFile', u) :
                         outputFile'.events[j].SEQUENCE \in
                             { stateFile.data[u].seq, stateFile.data[u].seq + 1 }
                   /\ \A j \in EventsOf(outputFile', u) :
                         outputFile'.events[j].SEQUENCE >= stateFile.data[u].seq
                   /\ stateFile'.data[u].seq >= stateFile.data[u].seq ]_vars

\* The third run reports the 14:00 fixture Removed for the second time.  The
\* 15:00 fixture, which one row only produces, started this run at SEQUENCE
\* 1 with a result: runs 1 and 2 both saw it, run 2 with a result.  The
\* 14:00 fixture is stored without a result, and every result of the feeds
\* matches it: it was in run 1 and not in run 2, which reported it Removed.
C19_Witness ==
    LET gone == RowUid(FxA)
        kept == RowUid(FxLate)
    IN  /\ runs = 3 /\ outcome = "written"
        /\ gone \in DOMAIN loaded /\ kept \in DOMAIN loaded
        /\ loaded[kept].seq = 1 /\ loaded[kept].fp.res # JNull
        /\ loaded[gone].fp.res = JNull
        /\ kept \in Produced(fixtures)
        /\ gone \in UidsOf(removed) /\ gone \in UidsOf(notifyFile.removed)

\* C20: a run either writes the calendar file and the state file or leaves
\* both as they were, so the one exists exactly when the other does; and
\* after a run that wrote, a UID with exactly one event in the calendar file
\* is stored with the SEQUENCE of that event.
C20_OutputAndStateTogether ==
    [][ /\ outputFile'.exists <=> stateFile'.exists
        /\ IF outcome' = "written"
           THEN /\ outputFile'.exists /\ stateFile'.exists
                /\ Len(outputFile'.events) = built'
                /\ EventUids(outputFile') \subseteq StoredUids(stateFile')
                /\ \A i \in 1..Len(outputFile'.events) :
                      LET ev == outputFile'.events[i] IN
                      Cardinality(EventsOf(outputFile', ev.UID)) = 1
                          => stateFile'.data[ev.UID].seq = ev.SEQUENCE
           ELSE stateFile' = stateFile /\ outputFile' = outputFile ]_vars

\* The one event of a fixture is at SEQUENCE 2, as is its state entry.
C20_Witness ==
    /\ outcome = "written"
    /\ \E i \in 1..Len(outputFile.events) :
          LET ev == outputFile.events[i] IN
          /\ Cardinality(EventsOf(outputFile, ev.UID)) = 1
          /\ ev.SEQUENCE = 2
          /\ stateFile.data[ev.UID].seq = 2

====
